---- MODULE Spec2Model ----
(***************************************************************************)
(* Typed query-result binding layer of flecs_ecs_bridge: the Iterable      *)
(* tuple implementations of core/iterable.rs (populate,                    *)
(* register_ids_descriptor, get_array_ptrs_of_components, get_tuple,       *)
(* get_tuple_with_ref) over a matched storage block, and the helpers of    *)
(* core/utility/functions.rs they use.                                     *)
(*                                                                         *)
(* Rust arrays are modelled as functions over 0..n-1, so that indices read *)
(* as in the source.  A tuple implementation is identified by its arity n  *)
(* and the number opt of trailing Option<_> members: these are exactly the *)
(* patterns the source implements.                                         *)
(***************************************************************************)
EXTENDS Integers, Sequences, FiniteSets, TLC

\* Largest tuple arity with an implementation (impl_iterable! ... //size 12).
MaxArity == 12
\* The null pointer (is_null()).
NULL == 0

\* Bounds of the model.
MaxRows == 3        \* largest entity count of a block
MaxShared == 1      \* most fields of one block that are shared
MaxNull == 1        \* most optional fields of one block that are absent
MaxPreTerms == 2    \* most terms written to a filter before populate
MaxDupArity == 4    \* largest tuple tried with one type in two positions
MaxLow == 1         \* largest small value tried in the low 16 bits of an id
MaxTables == 6      \* most tables created in the world of the grouped query
MaxSets == 3        \* most set_helper calls on one world

VARIABLES
    tuple,    \* the tuple implementation the query binds
    it,       \* the matched storage block of the current iteration step
    data,     \* ComponentsData returned by gather for `it`
    last,     \* the last materialize call: variant, row and returned tuple
    filter,   \* the Filterable populate writes through (terms and cursor)
    desc,     \* the ecs_filter_desc_t register_ids_descriptor writes
    pre,      \* filter and desc as they were before populate / register
    types,    \* the component type bound to each type parameter of the tuple
    request,  \* the last tuple type a caller asked an implementation for
    codec,    \* the last identifier codec call: operation, arguments, outcome
    query,    \* the grouped query: tables, cache of matched tables, blocks visited
    world     \* the world set_helper writes to: deferred mode, storage, signals

vars ==
    <<tuple, it, data, last, filter, desc, pre, types, request, codec, query, world>>

\* A sequence as a Rust array (0-based).
Arr(s) == [i \in 0..(Len(s) - 1) |-> s[i + 1]]

(***************************************************************************)
(* Tuple implementations                                                   *)
(***************************************************************************)
\* Every (arity, trailing-Option count) the source implements: the
\* hand-written arities 0..3 and the impl_iterable! invocations 4..12.
Tuples_without_all_optional ==
    UNION {{[n |-> a, opt |-> k] : k \in 0..(IF a = 0 THEN 0 ELSE a - 1)} : a \in 0..MaxArity}

Tuples == UNION {{[n |-> a, opt |-> k] : k \in 0..a} : a \in 0..MaxArity}

\* tuple_count!
tuple_count(t) == t.n

\* TupleForm::IS_OPTION of the member at 0-based position i.
IS_OPTION(t, i) == i >= t.n - t.opt

\* A tuple type a caller can write: per position, whether it is Option<_>.
Patterns == UNION {[0..(N - 1) -> BOOLEAN] : N \in 0..MaxArity}

Arity(p) == Cardinality(DOMAIN p)

\* The implementations whose Self type is the tuple type p (trait
\* resolution: arity and every member's form must match).
ImplsFor(p) ==
    {t \in Tuples :
        /\ tuple_count(t) = Arity(p)
        /\ \A i \in DOMAIN p : IS_OPTION(t, i) = p[i]}

\* The implementations written by hand (the rest come from impl_iterable!).
HandWritten(t) == t.n <= 3

(***************************************************************************)
(* Matched storage block (IterT) and the Field Resolver                    *)
(***************************************************************************)
\* Address of the column of 1-based field f.
FieldAddr(f) == 1000 * f

\* Each type parameter bound to a component type of its own.
Distinct(t) == [c \in 0..(t.n - 1) |-> c]

\* The component type at position c (the position itself past the tuple).
TypeAt(c) == IF c \in DOMAIN types THEN types[c] ELSE c

\* Address of the column a term of position c's component type matches:
\* one column per component type in a table.
ColumnOf(c) == FieldAddr(TypeAt(c) + 1)

\* Optional positions whose column the block may lack: no Required member
\* names the same component type.
Absentable(t) ==
    {i \in 0..(t.n - 1) :
        /\ IS_OPTION(t, i)
        /\ \A j \in 0..(t.n - 1) : TypeAt(j) = TypeAt(i) => IS_OPTION(t, j)}

\* Entity a shared field is read from (any non-zero id).
SharedSource(i) == 500 + i

SubsetsUpTo(S, k) == {X \in SUBSET S : Cardinality(X) <= k}

\* it.sources: a null pointer, or one source entity per field (0 = owned).
SourcesOf(t) ==
    {[null |-> TRUE, at |-> Arr(<<>>)]} \cup
    {[null |-> FALSE,
      at |-> [i \in 0..(t.n - 1) |->
                 IF \E j \in S : TypeAt(j) = TypeAt(i)
                 THEN SharedSource(TypeAt(i)) ELSE 0]] :
        S \in SubsetsUpTo(0..(t.n - 1), MaxShared)}

\* The column pointers: null only for Optional terms the block does not have.
PtrsOf(t) ==
    {[f \in 1..t.n |->
         IF \E i \in Z : TypeAt(i) = TypeAt(f - 1) THEN NULL ELSE ColumnOf(f - 1)] :
        Z \in SubsetsUpTo(Absentable(t), MaxNull)}

Blocks(t) ==
    {[count |-> c, sources |-> s, ptrs |-> p] :
        c \in 2..MaxRows, s \in SourcesOf(t), p \in PtrsOf(t)}

NoBlock == [count |-> 0, sources |-> [null |-> TRUE, at |-> Arr(<<>>)], ptrs |-> <<>>]

\* Whether 1-based field f of the block is a single shared value.
is_shared(b, f) ==
    /\ ~b.sources.null
    /\ (f - 1) \in DOMAIN b.sources.at
    /\ b.sources.at[f - 1] # 0

\* Number of elements behind the column pointer of field f.
field_len(b, f) == IF is_shared(b, f) THEN 1 ELSE b.count

\* Contents of the columns: over 3 entities field 1 is [10,20,30], shared
\* [42]; over 2 entities field 1 is [1,2] and field 2, shared, is [99].
field_data(b, f) ==
    [j \in 0..(field_len(b, f) - 1) |->
        IF is_shared(b, f)
        THEN (IF b.count = 2 THEN 97 + f ELSE 41 + f)
        ELSE (IF b.count = 2 THEN 100 * (f - 1) + (j + 1)
                             ELSE 100 * (f - 1) + 10 * (j + 1))]

\* ecs_field::<T>(it, index): the column pointer of 1-based field index; past
\* the block's field count the engine's contract is broken and the call
\* reads whatever lies behind the table.
ecs_field(b, index) ==
    IF index \in DOMAIN b.ptrs THEN b.ptrs[index] ELSE FieldAddr(index)

InRange(b, index) == index \in DOMAIN b.ptrs

(***************************************************************************)
(* References                                                              *)
(***************************************************************************)
\* &mut (*array.add(off)): a reference to element off of the array; made
\* from a null pointer it is undefined behaviour.
elem(array, off) ==
    IF array = NULL THEN [tag |-> "ub", ptr |-> NULL, off |-> off]
    ELSE [tag |-> "ref", ptr |-> array, off |-> off]

Some(r) == IF r.tag = "ref" THEN [r EXCEPT !.tag = "some"] ELSE r

None == [tag |-> "none", ptr |-> NULL, off |-> 0]

\* What a build can make of Some(&mut *null.add(off)): the null niche of
\* Option<&mut T> (None), a dangling reference, or a trap.
Outcomes(m) ==
    IF m.tag = "ub"
    THEN {None,
          [tag |-> "some", ptr |-> NULL, off |-> m.off],
          [tag |-> "trap", ptr |-> NULL, off |-> m.off]}
    ELSE {m}

RECURSIVE Resolve(_)
Resolve(tp) ==
    IF \A i \in DOMAIN tp : tp[i].tag # "ub" THEN {tp}
    ELSE LET i == CHOOSE k \in DOMAIN tp :
                      /\ tp[k].tag = "ub"
                      /\ \A l \in DOMAIN tp : tp[l].tag = "ub" => k <= l
         IN UNION {Resolve([tp EXCEPT ![i] = o]) : o \in Outcomes(tp[i])}

\* The element a reference denotes, when it lies inside its column.
Valid(b, r) ==
    /\ r.tag \in {"ref", "some"}
    /\ r.ptr # NULL
    /\ (r.ptr \div 1000) \in DOMAIN b.ptrs
    /\ r.off \in 0..(field_len(b, r.ptr \div 1000) - 1)

Deref(b, r) == field_data(b, r.ptr \div 1000)[r.off]

(***************************************************************************)
(* gather: get_array_ptrs_of_components                                    *)
(***************************************************************************)
\* [*it.sources.add(0) != 0, ...] or [false; N] when it.sources is null.
is_ref_array(t, b) ==
    IF ~b.sources.null
    THEN [i \in 0..(t.n - 1) |-> b.sources.at[i] # 0]
    ELSE [i \in 0..(t.n - 1) |-> FALSE]

\* Hand-written arities 0..3: ecs_field::<A>(it, 1), ecs_field::<B>(it, 2), ...
\* and is_ref_array_components[0] || is_ref_array_components[1] || ...
gather_hand(t, b) ==
    LET refs == is_ref_array(t, b)
        index == [i \in 0..(t.n - 1) |-> i + 1]
    IN [calls |-> [k \in 1..t.n |-> index[k - 1]],
        array_components |-> [i \in 0..(t.n - 1) |-> ecs_field(b, index[i])],
        is_ref_array_components |-> refs,
        is_any_array_a_ref |-> \E i \in 0..(t.n - 1) : refs[i]]

\* gather_macro with `index` starting at 2 instead of 1.
gather_macro_index_from_2(t, b) ==
    LET refs == is_ref_array(t, b)
        index == [i \in 0..(t.n - 1) |-> 2 + i]
        index2 == [i \in 0..(t.n - 1) |-> 2 + t.n + i]
    IN [calls |-> [k \in 1..(2 * t.n) |->
                      IF k <= t.n THEN index[k - 1] ELSE index2[k - 1 - t.n]],
        array_components |-> [i \in 0..(t.n - 1) |-> ecs_field(b, index[i])],
        is_ref_array_components |-> refs,
        is_any_array_a_ref |-> (\E i \in 0..(t.n - 1) : refs[i]) \/ FALSE]

\* gather_macro with the disjunction stopping one member early.
gather_macro_any_skips_last(t, b) ==
    LET refs == is_ref_array(t, b)
        index == [i \in 0..(t.n - 1) |-> 1 + i]
        index2 == [i \in 0..(t.n - 1) |-> 1 + t.n + i]
    IN [calls |-> [k \in 1..(2 * t.n) |->
                      IF k <= t.n THEN index[k - 1] ELSE index2[k - 1 - t.n]],
        array_components |-> [i \in 0..(t.n - 1) |-> ecs_field(b, index[i])],
        is_ref_array_components |-> refs,
        is_any_array_a_ref |-> (\E i \in 0..(t.n - 2) : refs[i]) \/ FALSE]

\* impl_iterable!: `index` starts at 1 and is incremented after every
\* ecs_field call; it runs on from array_components into the unused
\* array_components2, whose calls ask for fields N+1..2N.
gather_macro(t, b) ==
    LET refs == is_ref_array(t, b)
        index == [i \in 0..(t.n - 1) |-> 1 + i]
        index2 == [i \in 0..(t.n - 1) |-> 1 + t.n + i]
    IN [calls |-> [k \in 1..(2 * t.n) |->
                      IF k <= t.n THEN index[k - 1] ELSE index2[k - 1 - t.n]],
        array_components |-> [i \in 0..(t.n - 1) |-> ecs_field(b, index[i])],
        is_ref_array_components |-> refs,
        is_any_array_a_ref |-> (\E i \in 0..(t.n - 1) : refs[i]) \/ FALSE]

get_array_ptrs_of_components(t, b) ==
    IF HandWritten(t) THEN gather_hand(t, b) ELSE gather_macro(t, b)

(***************************************************************************)
(* materialize: TupleForm (used by impl_iterable!)                         *)
(***************************************************************************)
\* <Wrapper<T> as TupleForm<T, T>>::return_type_for_tuple
return_type_for_tuple_req(array, index) == elem(array, index)

\* return_type_for_tuple_with_ref without the is_ref branch.
return_type_for_tuple_with_ref_req_by_row(array, is_ref, index) == elem(array, index)

\* <Wrapper<T> as TupleForm<T, T>>::return_type_for_tuple_with_ref
return_type_for_tuple_with_ref_req(array, is_ref, index) ==
    IF is_ref THEN elem(array, 0) ELSE elem(array, index)

\* return_type_for_tuple of an Option member always taking the first element.
return_type_for_tuple_opt_first_row(array, index) ==
    IF array = NULL THEN None ELSE Some(elem(array, 0))

\* <Wrapper<T> as TupleForm<Option<T>, T>>::return_type_for_tuple
return_type_for_tuple_opt(array, index) ==
    IF array = NULL THEN None ELSE Some(elem(array, index))

\* <Wrapper<T> as TupleForm<Option<T>, T>>::return_type_for_tuple_with_ref
return_type_for_tuple_with_ref_opt(array, is_ref, index) ==
    IF array = NULL THEN None
    ELSE IF is_ref THEN Some(elem(array, 0))
    ELSE Some(elem(array, index))

\* impl_iterable!::get_tuple
get_tuple_macro(t, ac, index) ==
    [i \in 0..(t.n - 1) |->
        IF IS_OPTION(t, i) THEN return_type_for_tuple_opt(ac[i], index)
        ELSE return_type_for_tuple_req(ac[i], index)]

\* impl_iterable!::get_tuple_with_ref
get_tuple_with_ref_macro(t, ac, refs, index) ==
    [i \in 0..(t.n - 1) |->
        IF IS_OPTION(t, i)
        THEN return_type_for_tuple_with_ref_opt(ac[i], refs[i], index)
        ELSE return_type_for_tuple_with_ref_req(ac[i], refs[i], index)]

(***************************************************************************)
(* materialize: the hand-written implementations, arity 0..3               *)
(***************************************************************************)
\* ()
get_tuple_unit(ac, index) == Arr(<<>>)

get_tuple_with_ref_unit(ac, refs, index) == Arr(<<>>)

\* (A,)::get_tuple reading element 0 whatever the row.
get_tuple_A_first_row(ac, index) == Arr(<<elem(ac[0], 0)>>)

\* (A,)
get_tuple_A(ac, index) == Arr(<<elem(ac[0], index)>>)

get_tuple_with_ref_A(ac, refs, index) ==
    Arr(<<IF refs[0] THEN elem(ac[0], 0) ELSE elem(ac[0], index)>>)

\* (Option<A>,)
get_tuple_OptA(ac, index) ==
    Arr(<<IF ac[0] = NULL THEN None ELSE Some(elem(ac[0], index))>>)

get_tuple_with_ref_OptA(ac, refs, index) ==
    Arr(<<IF ac[0] = NULL THEN None
          ELSE IF refs[0] THEN Some(elem(ac[0], 0))
          ELSE Some(elem(ac[0], index))>>)

\* (A, B)
get_tuple_A_B(ac, index) == Arr(<<elem(ac[0], index), elem(ac[1], index)>>)

get_tuple_with_ref_A_B(ac, refs, index) ==
    Arr(<<IF refs[0] THEN elem(ac[0], 0) ELSE elem(ac[0], index),
          IF refs[1] THEN elem(ac[1], 0) ELSE elem(ac[1], index)>>)

\* (A, Option<B>)::get_tuple_with_ref with the is_ref flags of A and B swapped.
get_tuple_with_ref_A_OptB_swapped_flags(ac, refs, index) ==
    Arr(<<IF refs[1] THEN elem(ac[0], 0) ELSE elem(ac[0], index),
          IF refs[0] THEN Some(elem(ac[1], 0)) ELSE Some(elem(ac[1], index))>>)

\* (A, Option<B>): get_tuple_with_ref has no is_null() test on array_b.
get_tuple_A_OptB(ac, index) ==
    Arr(<<elem(ac[0], index),
          IF ac[1] = NULL THEN None ELSE Some(elem(ac[1], index))>>)

get_tuple_with_ref_A_OptB(ac, refs, index) ==
    Arr(<<IF refs[0] THEN elem(ac[0], 0) ELSE elem(ac[0], index),
          IF refs[1] THEN Some(elem(ac[1], 0)) ELSE Some(elem(ac[1], index))>>)

\* (Option<A>, Option<B>)
get_tuple_OptA_OptB(ac, index) ==
    Arr(<<IF ac[0] = NULL THEN None ELSE Some(elem(ac[0], index)),
          IF ac[1] = NULL THEN None ELSE Some(elem(ac[1], index))>>)

get_tuple_with_ref_OptA_OptB(ac, refs, index) ==
    Arr(<<IF ac[0] = NULL THEN None
          ELSE IF refs[0] THEN Some(elem(ac[0], 0))
          ELSE Some(elem(ac[0], index)),
          IF ac[1] = NULL THEN None
          ELSE IF refs[1] THEN Some(elem(ac[1], 0))
          ELSE Some(elem(ac[1], index))>>)

\* (A, B, C)
get_tuple_A_B_C(ac, index) ==
    Arr(<<elem(ac[0], index), elem(ac[1], index), elem(ac[2], index)>>)

get_tuple_with_ref_A_B_C(ac, refs, index) ==
    Arr(<<IF refs[0] THEN elem(ac[0], 0) ELSE elem(ac[0], index),
          IF refs[1] THEN elem(ac[1], 0) ELSE elem(ac[1], index),
          IF refs[2] THEN elem(ac[2], 0) ELSE elem(ac[2], index)>>)

\* (A, B, Option<C>): get_tuple_with_ref has no is_null() test on array_c.
get_tuple_A_B_OptC(ac, index) ==
    Arr(<<elem(ac[0], index), elem(ac[1], index),
          IF ac[2] = NULL THEN None ELSE Some(elem(ac[2], index))>>)

get_tuple_with_ref_A_B_OptC(ac, refs, index) ==
    Arr(<<IF refs[0] THEN elem(ac[0], 0) ELSE elem(ac[0], index),
          IF refs[1] THEN elem(ac[1], 0) ELSE elem(ac[1], index),
          IF refs[2] THEN Some(elem(ac[2], 0)) ELSE Some(elem(ac[2], index))>>)

\* (A, Option<B>, Option<C>): get_tuple_with_ref has no is_null() test on
\* array_b and array_c.
get_tuple_A_OptB_OptC(ac, index) ==
    Arr(<<elem(ac[0], index),
          IF ac[1] = NULL THEN None ELSE Some(elem(ac[1], index)),
          IF ac[2] = NULL THEN None ELSE Some(elem(ac[2], index))>>)

get_tuple_with_ref_A_OptB_OptC(ac, refs, index) ==
    Arr(<<IF refs[0] THEN elem(ac[0], 0) ELSE elem(ac[0], index),
          IF refs[1] THEN Some(elem(ac[1], 0)) ELSE Some(elem(ac[1], index)),
          IF refs[2] THEN Some(elem(ac[2], 0)) ELSE Some(elem(ac[2], index))>>)

\* (Option<A>, Option<B>, Option<C>)
get_tuple_OptA_OptB_OptC(ac, index) ==
    Arr(<<IF ac[0] = NULL THEN None ELSE Some(elem(ac[0], index)),
          IF ac[1] = NULL THEN None ELSE Some(elem(ac[1], index)),
          IF ac[2] = NULL THEN None ELSE Some(elem(ac[2], index))>>)

get_tuple_with_ref_OptA_OptB_OptC(ac, refs, index) ==
    Arr(<<IF ac[0] = NULL THEN None
          ELSE IF refs[0] THEN Some(elem(ac[0], 0))
          ELSE Some(elem(ac[0], index)),
          IF ac[1] = NULL THEN None
          ELSE IF refs[1] THEN Some(elem(ac[1], 0))
          ELSE Some(elem(ac[1], index)),
          IF ac[2] = NULL THEN None
          ELSE IF refs[2] THEN Some(elem(ac[2], 0))
          ELSE Some(elem(ac[2], index))>>)

\* Iterable::get_tuple of the implementation t.
get_tuple(t, ac, index) ==
    CASE t = [n |-> 0, opt |-> 0] -> get_tuple_unit(ac, index)
      [] t = [n |-> 1, opt |-> 0] -> get_tuple_A(ac, index)
      [] t = [n |-> 1, opt |-> 1] -> get_tuple_OptA(ac, index)
      [] t = [n |-> 2, opt |-> 0] -> get_tuple_A_B(ac, index)
      [] t = [n |-> 2, opt |-> 1] -> get_tuple_A_OptB(ac, index)
      [] t = [n |-> 2, opt |-> 2] -> get_tuple_OptA_OptB(ac, index)
      [] t = [n |-> 3, opt |-> 0] -> get_tuple_A_B_C(ac, index)
      [] t = [n |-> 3, opt |-> 1] -> get_tuple_A_B_OptC(ac, index)
      [] t = [n |-> 3, opt |-> 2] -> get_tuple_A_OptB_OptC(ac, index)
      [] t = [n |-> 3, opt |-> 3] -> get_tuple_OptA_OptB_OptC(ac, index)
      [] OTHER -> get_tuple_macro(t, ac, index)

\* Iterable::get_tuple_with_ref of the implementation t.
get_tuple_with_ref(t, ac, refs, index) ==
    CASE t = [n |-> 0, opt |-> 0] -> get_tuple_with_ref_unit(ac, refs, index)
      [] t = [n |-> 1, opt |-> 0] -> get_tuple_with_ref_A(ac, refs, index)
      [] t = [n |-> 1, opt |-> 1] -> get_tuple_with_ref_OptA(ac, refs, index)
      [] t = [n |-> 2, opt |-> 0] -> get_tuple_with_ref_A_B(ac, refs, index)
      [] t = [n |-> 2, opt |-> 1] -> get_tuple_with_ref_A_OptB(ac, refs, index)
      [] t = [n |-> 2, opt |-> 2] -> get_tuple_with_ref_OptA_OptB(ac, refs, index)
      [] t = [n |-> 3, opt |-> 0] -> get_tuple_with_ref_A_B_C(ac, refs, index)
      [] t = [n |-> 3, opt |-> 1] -> get_tuple_with_ref_A_B_OptC(ac, refs, index)
      [] t = [n |-> 3, opt |-> 2] -> get_tuple_with_ref_A_OptB_OptC(ac, refs, index)
      [] t = [n |-> 3, opt |-> 3] -> get_tuple_with_ref_OptA_OptB_OptC(ac, refs, index)
      [] OTHER -> get_tuple_with_ref_macro(t, ac, refs, index)

(***************************************************************************)
(* Term writing: populate and register_ids_descriptor                      *)
(***************************************************************************)
\* Slots of a term array: room for MaxPreTerms earlier terms and one tuple.
TermSlots == MaxPreTerms + MaxArity

\* A zeroed term (ecs_term_t default: id 0, oper And).
NewTerm == [id |-> 0, oper |-> "And"]

NewFilter ==
    [terms |-> [s \in 0..(TermSlots - 1) |-> NewTerm], cursor |-> 0, next_calls |-> 0]

NewDesc == [terms |-> [s \in 0..(TermSlots - 1) |-> NewTerm]]

\* <T as CachedComponentData>::get_id(world) of the type parameter at
\* position c (A = 0, B = 1, ...): one id per component type.
get_id(c) == 100 + TypeAt(c)

\* Filterable::next_term: the cursor moves to the next slot.
next_term(f) == [f EXCEPT !.cursor = @ + 1, !.next_calls = @ + 1]

\* populate's member statements with next_term called before the writes.
populate_member_advance_first(f, c, is_option) ==
    LET f0 == next_term(f)
        f1 == [f0 EXCEPT !.terms[f0.cursor].id = get_id(c)]
    IN IF is_option THEN [f1 EXCEPT !.terms[f0.cursor].oper = "Optional"] ELSE f1

\* populate's member statements writing the operator of every member.
populate_member_resets_oper(f, c, is_option) ==
    LET f1 == [f EXCEPT !.terms[f.cursor].id = get_id(c),
                        !.terms[f.cursor].oper = IF is_option THEN "Optional" ELSE "And"]
    IN next_term(f1)

\* One member of populate: term = filter.current_term(); term.id = ...;
\* term.oper = Optional for an Option member; filter.next_term().
populate_member(f, c, is_option) ==
    LET f1 == [f EXCEPT !.terms[f.cursor].id = get_id(c)]
        f2 == IF is_option THEN [f1 EXCEPT !.terms[f.cursor].oper = "Optional"]
              ELSE f1
    IN next_term(f2)

RECURSIVE populate_from_one_more(_, _, _)
\* The member repetition running one member too far.
populate_from_one_more(t, f, c) ==
    IF c > t.n THEN f
    ELSE IF c = t.n THEN populate_member(f, c, IS_OPTION(t, c))
    ELSE populate_member(populate_from_one_more(t, f, c + 1), c, IS_OPTION(t, c))

RECURSIVE populate_from(_, _, _)
populate_from(t, f, c) ==
    IF c >= t.n THEN f
    ELSE populate_from(t, populate_member(f, c, IS_OPTION(t, c)), c + 1)

\* populate of the hand-written implementations: the member statements
\* written out for A, B, C.
populate_hand(t, f) == populate_from(t, f, 0)

\* impl_iterable!::populate: the member statements repeated by $( ... )*.
populate_macro(t, f) == populate_from(t, f, 0)

populate(t, f) == IF HandWritten(t) THEN populate_hand(t, f) ELSE populate_macro(t, f)

\* register_ids_descriptor's member statements without the oper write.
register_member_id_only(d, term_index, c, is_option) ==
    [d EXCEPT !.terms[term_index].id = get_id(c)]

\* One member of register_ids_descriptor: desc.terms[term_index].id = ...;
\* desc.terms[term_index].oper = Optional for an Option member.
register_member(d, term_index, c, is_option) ==
    LET d1 == [d EXCEPT !.terms[term_index].id = get_id(c)]
    IN IF is_option THEN [d1 EXCEPT !.terms[term_index].oper = "Optional"] ELSE d1

RECURSIVE register_from(_, _, _)
register_from(t, d, c) ==
    IF c >= t.n THEN d
    ELSE register_from(t, register_member(d, c, c, IS_OPTION(t, c)), c + 1)

\* register_ids_descriptor of the hand-written implementations:
\* desc.terms[0], desc.terms[1], desc.terms[2].
register_ids_descriptor_hand(t, d) == register_from(t, d, 0)

\* impl_iterable!::register_ids_descriptor: term_index starts at 0 and is
\* incremented after every member.
register_ids_descriptor_macro(t, d) == register_from(t, d, 0)

register_ids_descriptor(t, d) ==
    IF HandWritten(t) THEN register_ids_descriptor_hand(t, d)
    ELSE register_ids_descriptor_macro(t, d)

(***************************************************************************)
(* Identifier codec (utility/functions.rs)                                 *)
(***************************************************************************)
\* A u64 is a sequence of four 16-bit limbs, least significant first; a
\* u32 is a sequence of two.
U64(w3, w2, w1, w0) == <<w0, w1, w2, w3>>

RECURSIVE BitsAnd(_, _, _)
BitsAnd(x, y, n) ==
    IF n = 0 \/ x = 0 \/ y = 0 THEN 0
    ELSE (IF x % 2 = 1 /\ y % 2 = 1 THEN 1 ELSE 0) + 2 * BitsAnd(x \div 2, y \div 2, n - 1)

RECURSIVE BitsOr(_, _, _)
BitsOr(x, y, n) ==
    IF n = 0 THEN 0
    ELSE IF x = 0 THEN y
    ELSE IF y = 0 THEN x
    ELSE (IF x % 2 = 1 \/ y % 2 = 1 THEN 1 ELSE 0) + 2 * BitsOr(x \div 2, y \div 2, n - 1)

\* x & y, x | y and !x on u64.
And64(x, y) == [i \in 1..4 |-> BitsAnd(x[i], y[i], 16)]
Or64(x, y) == [i \in 1..4 |-> BitsOr(x[i], y[i], 16)]
Not64(x) == [i \in 1..4 |-> 65535 - x[i]]

\* x << 32 and x >> 32 on u64 (bits shifted out are dropped).
Shl32(x) == <<0, 0, x[1], x[2]>>
Shr32(x) == <<x[3], x[4], 0, 0>>

\* x as u32 and u as u64.
AsU32(x) == <<x[1], x[2]>>
AsU64(u) == <<u[1], u[2], 0, 0>>

\* x + y on u64: the sum modulo 2^64 and whether it overflowed.
Add64(x, y) ==
    LET s1 == x[1] + y[1]
        s2 == x[2] + y[2] + s1 \div 65536
        s3 == x[3] + y[3] + s2 \div 65536
        s4 == x[4] + y[4] + s3 \div 65536
    IN [v |-> <<s1 % 65536, s2 % 65536, s3 % 65536, s4 % 65536>>,
        overflow |-> s4 \div 65536 = 1]

\* A value computed without arithmetic.
Exact(v) == [v |-> v, overflow |-> FALSE]

\* The id flags of the engine: PAIR is the top bit, the flags mask the top
\* four bits, the component mask its complement, the generation the 16
\* bits above the low half.
ECS_PAIR == U64(32768, 0, 0, 0)
RUST_ECS_ID_FLAGS_MASK == U64(61440, 0, 0, 0)
RUST_ECS_COMPONENT_MASK == Not64(RUST_ECS_ID_FLAGS_MASK)
ECS_GENERATION_MASK == U64(0, 65535, 0, 0)

\* ecs_entity_t_lo: value as u32 as u64
ecs_entity_t_lo(value) == AsU64(AsU32(value))

\* ecs_entity_t_hi shifting by one limb only.
ecs_entity_t_hi_shift_16(value) == <<value[2], value[3], value[4], 0>>

\* ecs_entity_t_hi: value >> 32
ecs_entity_t_hi(value) == Shr32(value)

\* ecs_entity_t_comb with the halves exchanged.
ecs_entity_t_comb_swapped(lo, hi) == Add64(Shl32(lo), hi)

\* ecs_entity_t_comb: (hi << 32) + lo
ecs_entity_t_comb(lo, hi) == Add64(Shl32(hi), lo)

\* ecs_pair combining predicate and object the other way round.
ecs_pair_swapped(pred, obj) ==
    LET c == ecs_entity_t_comb(pred, obj)
    IN [v |-> Or64(ECS_PAIR, c.v), overflow |-> c.overflow]

\* ecs_pair: ECS_PAIR | ecs_entity_t_comb(obj, pred)
ecs_pair(pred, obj) ==
    LET c == ecs_entity_t_comb(obj, pred)
    IN [v |-> Or64(ECS_PAIR, c.v), overflow |-> c.overflow]

\* ecs_is_pair testing the PAIR bit alone.
ecs_is_pair_bit_test(entity) ==
    And64(And64(entity, RUST_ECS_ID_FLAGS_MASK), ECS_PAIR) = ECS_PAIR

\* ecs_is_pair: entity & RUST_ECS_ID_FLAGS_MASK == ECS_PAIR
ecs_is_pair(entity) == And64(entity, RUST_ECS_ID_FLAGS_MASK) = ECS_PAIR

\* ecs_pair_first without the component mask.
ecs_pair_first_unmasked(e) == ecs_entity_t_hi(e)

\* ecs_pair_first: ecs_entity_t_hi(e & RUST_ECS_COMPONENT_MASK)
ecs_pair_first(e) == ecs_entity_t_hi(And64(e, RUST_ECS_COMPONENT_MASK))

\* ecs_pair_second returning the whole id.
ecs_pair_second_untruncated(e) == e

\* ecs_pair_second: ecs_entity_t_lo(e)
ecs_pair_second(e) == ecs_entity_t_lo(e)

\* The engine's ecs_strip_generation: the generation bits cleared, the
\* index and the pair / flag bits untouched.
ecs_strip_generation(e) == And64(e, Not64(ECS_GENERATION_MASK))

\* strip_generation halving the generation instead of clearing it.
strip_generation_halving(entity) == [entity EXCEPT ![3] = @ \div 2]

\* strip_generation clearing only the low byte of the generation.
strip_generation_low_byte(entity) == [entity EXCEPT ![3] = (@ \div 256) * 256]

\* strip_generation: unsafe { ecs_strip_generation(entity) }
strip_generation(entity) == ecs_strip_generation(entity)

\* get_generation without the generation mask.
get_generation_unmasked(entity) == AsU32(Shr32(entity))

\* get_generation: ((entity & ECS_GENERATION_MASK) >> 32) as u32
get_generation(entity) == AsU32(Shr32(And64(entity, ECS_GENERATION_MASK)))

\* What a call returns: an overflowing `+` panics in a build with overflow
\* checks and wraps in a build without.
Builds(r) ==
    IF r.overflow
    THEN {[status |-> "panic", v |-> <<>>, overflow |-> TRUE],
          [status |-> "ok", v |-> r.v, overflow |-> TRUE]}
    ELSE {[status |-> "ok", v |-> r.v, overflow |-> FALSE]}

\* The ids tried: plain 32-bit values, values reaching into the flag bits
\* of a pair's predicate, generations, and flagged ids.
Ids ==
    {U64(w3, w2, w1, w0) :
        w3 \in {0, 32768, 49152, 65535},
        w2 \in {0, 65535},
        w1 \in {0, 4095, 4096},
        w0 \in (0..MaxLow) \cup {65535}}

Zero64 == U64(0, 0, 0, 0)

Is32(x) == x[3] = 0 /\ x[4] = 0

\* Below 2^28: shifted into the high half it stays under the flag bits.
Is28(x) == Is32(x) /\ x[2] < 4096

(***************************************************************************)
(* Custom grouping (examples/flecs/query_group_by_custom.rs)               *)
(***************************************************************************)
\* The entities of the example, First registered before Second and Third.
First == U64(0, 0, 0, 11)
Second == U64(0, 0, 0, 12)
Third == U64(0, 0, 0, 13)
Group == U64(0, 0, 0, 14)
Position == U64(0, 0, 0, 15)
Tag == U64(0, 0, 0, 16)

\* flecs::Wildcard::ID, the wildcard placeholder of the engine.
Wildcard == U64(0, 0, 0, 266)

\* x < y on u64.
Less64(x, y) ==
    \E i \in 1..4 : x[i] < y[i] /\ \A j \in (i + 1)..4 : x[j] = y[j]

\* The type of a table: its ids in ascending order.
RECURSIVE TypeOf(_)
TypeOf(S) ==
    IF S = {} THEN <<>>
    ELSE LET least == CHOOSE x \in S : \A y \in S : x = y \/ Less64(x, y)
         IN <<least>> \o TypeOf(S \ {least})

\* (Group, target) as the engine stores it in a table's type.
PairId(pred, obj) == ecs_pair(pred, obj).v

\* The tables of the example, [Position, (Group, T)] with and without Tag,
\* and tables with no target and with two targets.
Shapes ==
    {TypeOf(S \cup {Position}) :
        S \in {{PairId(Group, t)} : t \in {First, Second, Third}} \cup
              {{PairId(Group, t), Tag} : t \in {First, Second, Third}} \cup
              {{}, {PairId(Group, First), PairId(Group, Second)}}}

\* Whether an id of a table matches the pattern of a search: a pair pattern
\* with a Wildcard second matches every pair with its first.
Matches(id, pattern) ==
    IF ecs_is_pair(pattern) /\ ecs_pair_second(pattern) = Wildcard
    THEN ecs_is_pair(id) /\ ecs_pair_first(id) = ecs_pair_first(pattern)
    ELSE id = pattern

\* The engine's ecs_search: the index of the first id of the table that
\* matches, and that id; -1 when no id matches.
ecs_search(table, pattern) ==
    LET hits == {i \in DOMAIN table : Matches(table[i], pattern)}
    IN IF hits = {} THEN [index |-> -1, match_id |-> Zero64]
       ELSE LET i == CHOOSE h \in hits : \A g \in hits : h <= g
            IN [index |-> i - 1, match_id |-> table[i]]

\* IdView::new_from(world, (id, Wildcard)).id()
wildcard_pair(id) == ecs_pair(id, Wildcard).v

\* IdView::second_id().id()
second_id(id) == ecs_pair_second(id)

\* The callback returning the matched id itself.
callback_group_by_relationship_whole_match(table, id) ==
    LET found == ecs_search(table, wildcard_pair(id))
    IN IF found.index # -1 THEN found.match_id ELSE Zero64

\* The callback returning where the search found the match.
callback_group_by_relationship_by_search_index(table, id) ==
    LET found == ecs_search(table, wildcard_pair(id))
    IN IF found.index # -1 THEN U64(0, 0, 0, found.index) ELSE Zero64

\* The callback returning the first element of the matched pair.
callback_group_by_relationship_first_id(table, id) ==
    LET found == ecs_search(table, wildcard_pair(id))
    IN IF found.index # -1 THEN ecs_pair_first(found.match_id) ELSE Zero64

\* callback_group_by_relationship: search the table for (id, Wildcard) and
\* return the second element of the match, or 0.
callback_group_by_relationship(table, id) ==
    LET found == ecs_search(table, wildcard_pair(id))
    IN IF found.index # -1 THEN second_id(found.match_id) ELSE Zero64

\* query::<&Position>(): the tables the query matches.
MatchesQuery(table) == \E i \in DOMAIN table : table[i] = Position

\* The engine's query cache: a newly matched table goes behind the tables
\* of its own group, groups in ascending order of their group id.
cache_insert(cache, entry) ==
    LET before == {i \in DOMAIN cache : ~Less64(entry.group_id, cache[i].group_id)}
        k == Cardinality(before)
    IN SubSeq(cache, 1, k) \o <<entry>> \o SubSeq(cache, k + 1, Len(cache))

NoQuery == [tables |-> <<>>, cache |-> <<>>, visited |-> <<>>]

(***************************************************************************)
(* set_helper (utility/functions.rs)                                       *)
(***************************************************************************)
\* The engine calls set_helper makes, with the write between them.
\* ecs_get_mut_id returns the storage; ecs_get_mut_modified_id, valid in
\* deferred mode only, returns the storage and queues the modified
\* signal with it; ecs_modified_id signals (or queues) modified.
Signalling == {"ecs_get_mut_modified_id", "ecs_modified_id"}

\* set_helper: the steps of the branch taken, in program order.
set_helper(deferred, value) ==
    IF ~deferred
    THEN <<"ecs_get_mut_id", "write", "ecs_modified_id">>
    ELSE <<"ecs_get_mut_modified_id", "write", "ecs_modified_id">>

\* Number of modification signals a sequence of steps raises.
SignalCount(steps) == Cardinality({i \in DOMAIN steps : steps[i] \in Signalling})

\* The entities set and the component values written.
Entities == {1, 2}

Values == {1, 2}

NewWorld ==
    [deferred |-> FALSE, store |-> [e \in Entities |-> 0], entity |-> 0,
     sets |-> 0, signals |-> 0, steps |-> <<>>]

(***************************************************************************)
(* State machine                                                           *)
(***************************************************************************)
NoData ==
    [status |-> "none", calls |-> <<>>, array_components |-> <<>>,
     is_ref_array_components |-> <<>>, is_any_array_a_ref |-> FALSE]

NoCall == [variant |-> "none", index |-> 0, value |-> <<>>]

\* No tuple type asked for yet.
NoRequest == [asked |-> FALSE, pattern |-> <<>>, impls |-> {}]

\* No codec call made yet.
NoOut == [status |-> "none", v |-> <<>>, overflow |-> FALSE]

NoCodec == [op |-> "none", a |-> Zero64, b |-> Zero64, out |-> NoOut]

NoPre == [populate |-> FALSE, register |-> FALSE, filter |-> NewFilter, desc |-> NewDesc]

\* Nothing built and nothing iterated yet.
Fresh ==
    /\ it = NoBlock
    /\ data = NoData
    /\ last = NoCall
    /\ filter = NewFilter
    /\ desc = NewDesc
    /\ pre = NoPre
    /\ request = NoRequest
    /\ query = NoQuery
    /\ world = NewWorld

Init ==
    /\ tuple \in Tuples
    /\ types = Distinct(tuple)
    /\ Fresh
    /\ codec = NoCodec

\* gather returned: the ComponentsData it built.
Returned(d) ==
    [status |-> "ok", calls |-> d.calls, array_components |-> d.array_components,
     is_ref_array_components |-> d.is_ref_array_components,
     is_any_array_a_ref |-> d.is_any_array_a_ref]

\* gather stopped in the first ecs_field call past the block's field count
\* (the engine asserts the index in a debug build).
Aborted(b, d) ==
    LET k == CHOOSE j \in DOMAIN d.calls :
                 /\ ~InRange(b, d.calls[j])
                 /\ \A l \in DOMAIN d.calls : ~InRange(b, d.calls[l]) => j <= l
    IN [status |-> "abort", calls |-> SubSeq(d.calls, 1, k),
        array_components |-> <<>>, is_ref_array_components |-> <<>>,
        is_any_array_a_ref |-> FALSE]

GatherOutcomes(b, d) ==
    {Returned(d)} \cup
    (IF \E j \in DOMAIN d.calls : ~InRange(b, d.calls[j]) THEN {Aborted(b, d)} ELSE {})

\* One iteration step begins: gather on the matched block.
Gather ==
    /\ data.status = "none"
    /\ \E b \in Blocks(tuple) :
          /\ it' = b
          /\ data' \in GatherOutcomes(b, get_array_ptrs_of_components(tuple, b))
    /\ UNCHANGED <<tuple, last, filter, desc, pre, types, request, codec, query, world>>

\* The row loop's fast path, taken only when gather reported no shared field.
GetTuple ==
    /\ data.status = "ok"
    /\ ~data.is_any_array_a_ref
    /\ \E index \in 0..(it.count - 1) :
          \E v \in Resolve(get_tuple(tuple, data.array_components, index)) :
              last' = [variant |-> "get_tuple", index |-> index, value |-> v]
    /\ UNCHANGED <<tuple, it, data, filter, desc, pre, types, request, codec, query, world>>

\* The row loop's general path.
GetTupleWithRef ==
    /\ data.status = "ok"
    /\ \E index \in 0..(it.count - 1) :
          \E v \in Resolve(get_tuple_with_ref(tuple, data.array_components,
                                              data.is_ref_array_components, index)) :
              last' = [variant |-> "get_tuple_with_ref", index |-> index, value |-> v]
    /\ UNCHANGED <<tuple, it, data, filter, desc, pre, types, request, codec, query, world>>

\* A term added to the filter before the tuple's terms: the cursor moves on.
NextTerm ==
    /\ ~pre.populate
    /\ filter.cursor < MaxPreTerms
    /\ filter' = next_term(filter)
    /\ UNCHANGED <<tuple, it, data, last, desc, pre, types, request, codec, query, world>>

\* Query construction through a Filterable.
Populate ==
    /\ ~pre.populate
    /\ pre' = [pre EXCEPT !.populate = TRUE, !.filter = filter]
    /\ filter' = populate(tuple, filter)
    /\ UNCHANGED <<tuple, it, data, last, desc, types, request, codec, query, world>>

\* Query construction through a filter descriptor.
RegisterIdsDescriptor ==
    /\ ~pre.register
    /\ pre' = [pre EXCEPT !.register = TRUE, !.desc = desc]
    /\ desc' = register_ids_descriptor(tuple, desc)
    /\ UNCHANGED <<tuple, it, data, last, filter, types, request, codec, query, world>>

\* A caller names a tuple type as the components of a query: the compiler
\* looks for its Iterable implementation.
Bind ==
    /\ ~request.asked
    /\ \E p \in Patterns :
          request' = [asked |-> TRUE, pattern |-> p, impls |-> ImplsFor(p)]
    /\ UNCHANGED <<tuple, it, data, last, filter, desc, pre, types, codec, query, world>>

\* One codec call on the arguments drawn for this behaviour.
Call(op, r) ==
    /\ codec.op = "none"
    /\ \E o \in Builds(r) : codec' = [codec EXCEPT !.op = op, !.out = o]
    /\ UNCHANGED <<tuple, it, data, last, filter, desc, pre, types, request, query, world>>

Comb == Call("ecs_entity_t_comb", ecs_entity_t_comb(codec.a, codec.b))

Pair == Call("ecs_pair", ecs_pair(codec.a, codec.b))

IsPair == Call("ecs_is_pair", Exact(ecs_is_pair(codec.a)))

PairFirst == Call("ecs_pair_first", Exact(ecs_pair_first(codec.a)))

PairSecond == Call("ecs_pair_second", Exact(ecs_pair_second(codec.a)))

Lo == Call("ecs_entity_t_lo", Exact(ecs_entity_t_lo(codec.a)))

Hi == Call("ecs_entity_t_hi", Exact(ecs_entity_t_hi(codec.a)))

GetGeneration == Call("get_generation", Exact(get_generation(codec.a)))

StripGeneration == Call("strip_generation", Exact(strip_generation(codec.a)))

\* An entity is created with a set of components no table has yet: the
\* engine creates the table and, when the query matches it, calls the
\* group_by callback and files the table in the query cache.
CreateTable ==
    /\ query.visited = <<>>
    /\ Len(query.tables) < MaxTables
    /\ \E table \in Shapes :
          /\ \A i \in DOMAIN query.tables : query.tables[i] # table
          /\ query' =
                [query EXCEPT
                    !.tables = Append(@, table),
                    !.cache =
                        IF MatchesQuery(table)
                        THEN cache_insert(@,
                                 [table |-> table,
                                  group_id |-> callback_group_by_relationship(table, Group)])
                        ELSE @]
    /\ UNCHANGED <<tuple, it, data, last, filter, desc, pre, types, request, codec, world>>

\* query.iter: the next block of the cache is visited; it.group_id() is the
\* group id filed with it.
IterNext ==
    /\ Len(query.visited) < Len(query.cache)
    /\ query' = [query EXCEPT !.visited = Append(@, query.cache[Len(@) + 1])]
    /\ UNCHANGED <<tuple, it, data, last, filter, desc, pre, types, request, codec, world>>

\* ecs_defer_begin / ecs_defer_end around calls of set_helper.
DeferBegin ==
    /\ ~world.deferred
    /\ world' = [world EXCEPT !.deferred = TRUE]
    /\ UNCHANGED <<tuple, it, data, last, filter, desc, pre, types, request, codec, query>>

DeferEnd ==
    /\ world.deferred
    /\ world' = [world EXCEPT !.deferred = FALSE]
    /\ UNCHANGED <<tuple, it, data, last, filter, desc, pre, types, request, codec, query>>

\* One call of set_helper for a component type of non-zero size.
SetHelper ==
    /\ world.sets < MaxSets
    /\ \E entity \in Entities, value \in Values :
          LET steps == set_helper(world.deferred, value)
          IN world' = [world EXCEPT !.store[entity] = value,
                                    !.entity = entity,
                                    !.sets = @ + 1,
                                    !.signals = @ + SignalCount(steps),
                                    !.steps = steps]
    /\ UNCHANGED <<tuple, it, data, last, filter, desc, pre, types, request, codec, query>>

NextIter == Gather \/ GetTuple \/ GetTupleWithRef

NextBuild == NextTerm \/ Populate \/ RegisterIdsDescriptor

Next == NextIter \/ NextBuild

Spec == Init /\ [][Next]_vars

\* The iteration step alone: gather, then materialize per row.
SpecIter == Init /\ [][NextIter]_vars

\* The empty tuple () alone, through construction and iteration.
InitUnit == Init /\ tuple = [n |-> 0, opt |-> 0]

SpecUnit == InitUnit /\ [][Next]_vars

\* A tuple whose first two type parameters are bound to one component
\* type, e.g. (Position, Position) or (Position, Option<Position>, Velocity):
\* the impls are generic over A, B, ... with no bound relating them.
InitDup ==
    /\ tuple \in {t \in Tuples : t.n \in 2..MaxDupArity}
    /\ types = [Distinct(tuple) EXCEPT ![1] = 0]
    /\ Fresh
    /\ codec = NoCodec

SpecDup == InitDup /\ [][Next]_vars

\* The identifier codec on arguments drawn from Ids.
InitCodec ==
    /\ tuple = [n |-> 0, opt |-> 0]
    /\ types = Distinct(tuple)
    /\ Fresh
    /\ codec \in {[op |-> "none", a |-> a, b |-> b, out |-> NoOut] : a, b \in Ids}

NextCodec ==
    \/ Comb \/ Pair \/ IsPair \/ PairFirst \/ PairSecond \/ Lo \/ Hi
    \/ GetGeneration \/ StripGeneration

SpecCodec == InitCodec /\ [][NextCodec]_vars

\* A term an earlier builder call has already written.
UsedTerm == [id |-> 999, oper |-> "Not"]

\* Term arrays with no, one or every slot already written.
UsedTerms ==
    {[s \in 0..(TermSlots - 1) |-> IF s \in S THEN UsedTerm ELSE NewTerm] :
        S \in {{}, 0..(TermSlots - 1)} \cup {{u} : u \in 0..(TermSlots - 1)}}

\* Query construction over term arrays that are not zeroed.
InitUsed ==
    /\ tuple \in Tuples
    /\ types = Distinct(tuple)
    /\ it = NoBlock
    /\ data = NoData
    /\ last = NoCall
    /\ \E terms \in UsedTerms :
          /\ filter = [NewFilter EXCEPT !.terms = terms]
          /\ desc = [terms |-> terms]
    /\ pre = NoPre
    /\ request = NoRequest
    /\ codec = NoCodec
    /\ query = NoQuery
    /\ world = NewWorld

SpecUsed == InitUsed /\ [][NextBuild]_vars

\* The grouped query of the example.
NextGroup == CreateTable \/ IterNext

SpecGroup == InitUnit /\ [][NextGroup]_vars

\* set_helper on a world entering and leaving deferred mode.
NextSet == DeferBegin \/ DeferEnd \/ SetHelper

SpecSet == InitUnit /\ [][NextSet]_vars

\* Tuple types looked up against the implementations.
NextBind == Bind

SpecBind == InitUnit /\ [][NextBind]_vars

\* Query construction alone.
SpecBuild == Init /\ [][NextBuild]_vars

(***************************************************************************)
(* Properties of gather and materialize (checked under SpecIter)           *)
(***************************************************************************)
\* Positions of the bound tuple.
Members == 0..(tuple_count(tuple) - 1)

\* C1: an Optional member whose gathered pointer is null yields None at
\* every row, in every tuple implementation and in both materialize
\* variants, whatever its is_ref flag.
C1_NullOptionalYieldsNone ==
    last.variant # "none" =>
        \A i \in Members :
            (IS_OPTION(tuple, i) /\ data.array_components[i] = NULL)
                => last.value[i] = None

\* C2: one call of gather on a tuple of arity N asks the Field Resolver
\* only for field indices in 1..N, each exactly once.
C2_FieldIndicesWithinArity ==
    data.status # "none" =>
        /\ \A k \in DOMAIN data.calls : data.calls[k] \in 1..tuple.n
        /\ \A f \in 1..tuple.n :
              Cardinality({k \in DOMAIN data.calls : data.calls[k] = f}) = 1

\* C3: when gather returns, array_components[i-1] is the block's pointer
\* for field i (null passed through) and is_ref_array_components[i-1] is
\* (sources[i-1] != 0), or false for every member when sources is null.
C3_GatherReturnsFieldPointers ==
    data.status = "ok" =>
        \A i \in Members :
            /\ data.array_components[i] = it.ptrs[i + 1]
            /\ data.is_ref_array_components[i] =
                  (IF it.sources.null THEN FALSE ELSE it.sources.at[i] # 0)

C3_Witness ==
    /\ data.status = "ok"
    /\ tuple.n = MaxArity
    /\ it.ptrs[MaxArity] = NULL
    /\ data.array_components[MaxArity - 1] = NULL
    /\ data.is_ref_array_components[4]

\* C4: on the general path a member whose is_ref flag is true (and whose
\* field is present) yields a reference to element 0 of its field at every
\* row; over the shared backing value [42] every row yields 42.
C4_SharedMemberYieldsElementZero ==
    last.variant = "get_tuple_with_ref" =>
        \A i \in Members :
            (data.is_ref_array_components[i] /\ it.ptrs[i + 1] # NULL) =>
                /\ last.value[i].tag = (IF IS_OPTION(tuple, i) THEN "some" ELSE "ref")
                /\ last.value[i].ptr = it.ptrs[i + 1]
                /\ last.value[i].off = 0
                /\ Valid(it, last.value[i])
                /\ Deref(it, last.value[i]) = field_data(it, i + 1)[0]
                /\ (it.count = 3 /\ i = 0) => Deref(it, last.value[i]) = 42

C4_Witness ==
    /\ last.variant = "get_tuple_with_ref"
    /\ tuple = [n |-> 1, opt |-> 0]
    /\ it.count = 3
    /\ last.index = 2
    /\ data.is_ref_array_components[0]
    /\ Deref(it, last.value[0]) = 42

\* C5: a Required member whose field is not shared yields, at row r, a
\* reference to element r of the field's array, in both variants; over
\* [10,20,30] rows 0/1/2 yield 10/20/30.
C5_RequiredMemberYieldsRowElement ==
    last.variant # "none" =>
        \A i \in Members :
            (~IS_OPTION(tuple, i) /\ ~is_shared(it, i + 1)) =>
                /\ last.value[i] = [tag |-> "ref", ptr |-> it.ptrs[i + 1], off |-> last.index]
                /\ Valid(it, last.value[i])
                /\ Deref(it, last.value[i]) = field_data(it, i + 1)[last.index]
                /\ (it.count = 3 /\ i = 0) =>
                      Deref(it, last.value[i]) = 10 * (last.index + 1)

C5_Witness ==
    /\ last.variant = "get_tuple"
    /\ tuple = [n |-> 1, opt |-> 0]
    /\ it.count = 3
    /\ last.index = 2
    /\ Deref(it, last.value[0]) = 30

\* C6: on the general path position i of the tuple is decided by
\* pointers[i], is_ref[i] and the row alone, in declaration order (for the
\* members whose field is present); for (A, Option<B>) with A = [1,2] not
\* shared and B = shared [99] over 2 entities, row 0 yields (1, Some(99))
\* and row 1 yields (2, Some(99)).
C6_MixedTuplePerMember ==
    last.variant = "get_tuple_with_ref" =>
        /\ \A i \in Members :
              data.array_components[i] # NULL =>
                  last.value[i] =
                      [tag |-> IF IS_OPTION(tuple, i) THEN "some" ELSE "ref",
                       ptr |-> data.array_components[i],
                       off |-> IF data.is_ref_array_components[i] THEN 0 ELSE last.index]
        /\ (/\ tuple = [n |-> 2, opt |-> 1]
            /\ it.count = 2
            /\ it.ptrs[2] # NULL
            /\ ~is_shared(it, 1)
            /\ is_shared(it, 2)) =>
                /\ last.value[0].tag = "ref"
                /\ Deref(it, last.value[0]) = last.index + 1
                /\ last.value[1].tag = "some"
                /\ Deref(it, last.value[1]) = 99

C6_Witness ==
    /\ last.variant = "get_tuple_with_ref"
    /\ tuple = [n |-> 2, opt |-> 1]
    /\ it.count = 2
    /\ last.index = 1
    /\ ~is_shared(it, 1)
    /\ is_shared(it, 2)
    /\ Deref(it, last.value[0]) = 2
    /\ last.value[1].tag = "some"
    /\ Deref(it, last.value[1]) = 99

\* C7: whenever gather reported any_ref = false, the tuple the general
\* variant returns for a row is the tuple the fast-path variant returns for
\* that row, for every combination of null and non-null optional pointers.
C7_GeneralEqualsFastPath ==
    (last.variant = "get_tuple_with_ref" /\ ~data.is_any_array_a_ref) =>
        last.value \in Resolve(get_tuple(tuple, data.array_components, last.index))

\* C8: when gather returns, is_any_array_a_ref is true exactly when some
\* entry of the returned is_ref array is true, and false when the block's
\* sources array is null.
C8_AnyRefIsDisjunction ==
    data.status = "ok" =>
        /\ data.is_any_array_a_ref = (\E i \in Members : data.is_ref_array_components[i])
        /\ it.sources.null => ~data.is_any_array_a_ref

C8_Witness ==
    /\ data.status = "ok"
    /\ tuple.n = MaxArity
    /\ data.is_any_array_a_ref
    /\ data.is_ref_array_components[MaxArity - 1]

(***************************************************************************)
(* Properties of populate and register_ids_descriptor (under SpecBuild)    *)
(***************************************************************************)
\* C9: populate, starting with the cursor at slot c, writes the component
\* id of member i into slot c+i-1 in declaration order, sets that slot's
\* operator to Optional exactly when member i is Optional, and leaves the
\* cursor at c+N after exactly N calls of next_term.
C9_PopulateWritesTermsInOrder ==
    pre.populate =>
        LET c == pre.filter.cursor IN
        /\ \A i \in Members :
              /\ filter.terms[c + i].id = get_id(i)
              /\ (filter.terms[c + i].oper = "Optional") = IS_OPTION(tuple, i)
        /\ filter.cursor = c + tuple.n
        /\ filter.next_calls = pre.filter.next_calls + tuple.n

C9_Witness ==
    /\ pre.populate
    /\ pre.filter.cursor = 1
    /\ tuple = [n |-> MaxArity, opt |-> 3]
    /\ filter.terms[1].id = get_id(0)
    /\ filter.terms[MaxArity].oper = "Optional"
    /\ filter.cursor = MaxArity + 1

\* C10: register_ids_descriptor on a fresh descriptor leaves slots 0..N-1
\* with the ids and Required/Optional operators populate leaves in slots
\* 0..N-1 of a fresh filter whose cursor starts at 0.
C10_RegisterEquivalentToPopulate ==
    (pre.populate /\ pre.register /\ pre.filter.cursor = 0 /\ pre.desc = NewDesc) =>
        \A s \in Members :
            /\ desc.terms[s].id = filter.terms[s].id
            /\ desc.terms[s].oper = filter.terms[s].oper

C10_Witness ==
    /\ pre.populate
    /\ pre.register
    /\ pre.filter.cursor = 0
    /\ tuple = [n |-> 3, opt |-> 2]
    /\ desc.terms[0] = [id |-> get_id(0), oper |-> "And"]
    /\ desc.terms[2] = [id |-> get_id(2), oper |-> "Optional"]
    /\ desc.terms[2] = filter.terms[2]

(***************************************************************************)
(* The empty tuple (checked under SpecUnit)                                *)
(***************************************************************************)
\* C11: for the empty tuple every operation is a no-op: populate writes no
\* term and does not move the cursor, register_ids_descriptor leaves the
\* descriptor unchanged, gather returns empty arrays with any_ref = false
\* without calling the Field Resolver, and both materialize variants
\* return the unit tuple.
C11_EmptyTupleIsNoOp ==
    tuple = [n |-> 0, opt |-> 0] =>
        /\ pre.populate => filter = pre.filter
        /\ pre.register => desc = pre.desc
        /\ data.status # "none" =>
              /\ data.status = "ok"
              /\ data.calls = <<>>
              /\ data.array_components = <<>>
              /\ data.is_ref_array_components = <<>>
              /\ ~data.is_any_array_a_ref
        /\ last.variant # "none" => last.value = <<>>

C11_Witness ==
    /\ tuple = [n |-> 0, opt |-> 0]
    /\ pre.populate
    /\ pre.register
    /\ pre.filter.cursor = 1
    /\ filter.cursor = 1
    /\ data.status = "ok"
    /\ ~it.sources.null
    /\ last.variant = "get_tuple_with_ref"
    /\ last.index = 1

(***************************************************************************)
(* The family of implementations (checked under SpecBind)                  *)
(***************************************************************************)
\* Optional members only after every Required member.
TrailingOptions(p) == \A i, j \in DOMAIN p : (i < j /\ p[i]) => p[j]

SameIdTwice(terms, c) ==
    \E i, j \in Members : i < j /\ terms[c + i].id = terms[c + j].id

\* Two members of one materialized tuple referring to one element.
SameElementTwice(value) ==
    \E i, j \in Members :
        /\ i < j
        /\ value[i].tag \in {"ref", "some"}
        /\ value[j].tag \in {"ref", "some"}
        /\ value[i].ptr = value[j].ptr
        /\ value[i].off = value[j].off

\* C13: a tuple naming one component type in two positions is rejected at
\* construction: populate and register_ids_descriptor never leave two
\* term slots with the same component id, and materialize never returns
\* two references in one tuple to the same element.
C13_DuplicateTypeRejected ==
    /\ pre.populate => ~SameIdTwice(filter.terms, pre.filter.cursor)
    /\ pre.register => ~SameIdTwice(desc.terms, 0)
    /\ last.variant # "none" => ~SameElementTwice(last.value)

(***************************************************************************)
(* Rows of one block (checked under SpecIter)                              *)
(***************************************************************************)
\* Members whose field is a present, per-entity column of the block.
OwnColumns ==
    {i \in Members : it.ptrs[i + 1] # NULL /\ ~is_shared(it, i + 1)}

\* C14: over one block, the tuple materialized for a row refers, for each
\* non-shared, non-null member, to the element of that member's column at
\* the row's index; so the tuples materialized for two different rows refer
\* to different elements of every such column.
C14_DistinctRowsDistinctElements ==
    /\ [](last.variant # "none" =>
            \A i \in OwnColumns :
                /\ last.value[i].tag \in {"ref", "some"}
                /\ last.value[i].ptr = it.ptrs[i + 1]
                /\ last.value[i].off = last.index)
    /\ [][(/\ last.variant # "none"
           /\ last'.variant # "none"
           /\ it' = it
           /\ last'.index # last.index) =>
              \A i \in OwnColumns :
                  <<last'.value[i].ptr, last'.value[i].off>> #
                      <<last.value[i].ptr, last.value[i].off>>]_vars

C14_Witness ==
    /\ last.variant = "get_tuple"
    /\ tuple = [n |-> 5, opt |-> 2]
    /\ it.count = MaxRows
    /\ last.index = MaxRows - 1
    /\ OwnColumns = Members
    /\ last.value[4] = [tag |-> "some", ptr |-> it.ptrs[5], off |-> MaxRows - 1]
    /\ Deref(it, last.value[0]) = 10 * MaxRows

(***************************************************************************)
(* Identifier codec laws (checked under SpecCodec)                         *)
(***************************************************************************)
\* C15 (as stated): for all ids p and o, ecs_pair(p, o) is a pair whose
\* first is p and whose second is o.
C15_PairRoundTripAllIds ==
    codec.op = "ecs_pair" =>
        /\ codec.out.status = "ok"
        /\ ecs_is_pair(codec.out.v)
        /\ ecs_pair_first(codec.out.v) = codec.a
        /\ ecs_pair_second(codec.out.v) = codec.b

\* C15: for every predicate p below 2^28 and every object o below 2^32,
\* ecs_pair(p, o) returns, ecs_is_pair of it is true, ecs_pair_first of it
\* is p and ecs_pair_second of it is o.
C15_PairRoundTripInRange ==
    (codec.op = "ecs_pair" /\ Is28(codec.a) /\ Is32(codec.b)) =>
        /\ codec.out.status = "ok"
        /\ ecs_is_pair(codec.out.v)
        /\ ecs_pair_first(codec.out.v) = codec.a
        /\ ecs_pair_second(codec.out.v) = codec.b

C15_Witness ==
    /\ codec.op = "ecs_pair"
    /\ codec.a = U64(0, 0, 4095, 65535)
    /\ codec.b = U64(0, 0, 4096, 65535)
    /\ codec.out.v = U64(32768 + 4095, 65535, 4096, 65535)
    /\ ecs_pair_first(codec.out.v) = codec.a

\* C16: for all 32-bit a and b, ecs_entity_t_lo(ecs_entity_t_comb(a, b)) is
\* a and ecs_entity_t_hi(ecs_entity_t_comb(a, b)) is b.
C16_LoHiRoundTrip ==
    (codec.op = "ecs_entity_t_comb" /\ Is32(codec.a) /\ Is32(codec.b)) =>
        /\ codec.out.status = "ok"
        /\ ecs_entity_t_lo(codec.out.v) = codec.a
        /\ ecs_entity_t_hi(codec.out.v) = codec.b

C16_Witness ==
    /\ codec.op = "ecs_entity_t_comb"
    /\ codec.a = U64(0, 0, 4096, 65535)
    /\ codec.b = U64(0, 0, 4095, 1)
    /\ ecs_entity_t_lo(codec.out.v) = U64(0, 0, 4096, 65535)
    /\ ecs_entity_t_hi(codec.out.v) = U64(0, 0, 4095, 1)

\* C17 (as stated): for every pair of u64 arguments ecs_entity_t_comb
\* returns (hi << 32) | lo, with low 32 bits lo and high 32 bits hi.
C17_CombIsShiftOrAllArgs ==
    codec.op = "ecs_entity_t_comb" =>
        /\ codec.out.status = "ok"
        /\ codec.out.v = Or64(Shl32(codec.b), codec.a)
        /\ AsU64(AsU32(codec.out.v)) = codec.a
        /\ Shr32(codec.out.v) = codec.b

\* C17: for lo and hi below 2^32, ecs_entity_t_comb(lo, hi) returns
\* (hi << 32) | lo, whose low 32 bits are lo and whose high 32 bits are hi;
\* for any arguments, a returned value has the low 32 bits of lo.
C17_CombIsShiftOr32 ==
    codec.op = "ecs_entity_t_comb" =>
        /\ codec.out.status = "ok" => AsU32(codec.out.v) = AsU32(codec.a)
        /\ (Is32(codec.a) /\ Is32(codec.b)) =>
              /\ codec.out.status = "ok"
              /\ ~codec.out.overflow
              /\ codec.out.v = Or64(Shl32(codec.b), codec.a)
              /\ codec.out.v = U64(codec.b[2], codec.b[1], codec.a[2], codec.a[1])

C17_Witness ==
    /\ codec.op = "ecs_entity_t_comb"
    /\ codec.a = U64(0, 0, 4095, 1)
    /\ codec.b = U64(0, 0, 4096, 65535)
    /\ codec.out.v = U64(4096, 65535, 4095, 1)

\* C18: ecs_pair(pred, obj) is ecs_entity_t_comb(obj, pred) | ECS_PAIR: the
\* PAIR bit is set in every result, and for 32-bit arguments the low half
\* of the result is obj and the high half is pred with the PAIR bit.
C18_PairIsCombWithFlag ==
    codec.op = "ecs_pair" =>
        /\ codec.out.status = "ok" =>
              /\ codec.out.v = Or64(ecs_entity_t_comb(codec.b, codec.a).v, ECS_PAIR)
              /\ codec.out.v[4] >= 32768
        /\ (Is32(codec.a) /\ Is32(codec.b)) =>
              /\ codec.out.status = "ok"
              /\ AsU32(codec.out.v) = AsU32(codec.b)
              /\ Shr32(codec.out.v) = Or64(codec.a, U64(0, 0, 32768, 0))

C18_Witness ==
    /\ codec.op = "ecs_pair"
    /\ codec.a = U64(0, 0, 0, 1)
    /\ codec.b = U64(0, 0, 4095, 0)
    /\ codec.out.v = U64(32768, 1, 4095, 0)

\* C19 (as stated): ecs_is_pair(id) is true exactly when the PAIR bit is
\* set in id masked with the flags mask, other flag bits notwithstanding.
C19_IsPairIffPairBit ==
    codec.op = "ecs_is_pair" =>
        codec.out.v =
            (And64(And64(codec.a, RUST_ECS_ID_FLAGS_MASK), ECS_PAIR) = ECS_PAIR)

\* C19: ecs_is_pair(id) is true exactly when id masked with the flags mask
\* equals the PAIR flag: the PAIR bit is set and no other flag bit is.
C19_IsPairIffOnlyPairFlag ==
    codec.op = "ecs_is_pair" =>
        /\ codec.out.status = "ok"
        /\ codec.out.v = (codec.a[4] \div 4096 = 8)

C19_Witness ==
    /\ codec.op = "ecs_is_pair"
    /\ codec.a = U64(49152, 0, 4095, 1)
    /\ codec.out.v = FALSE

\* C20: every codec operation returns a value for every 64-bit argument,
\* with no arithmetic overflow and no error outcome.
C20_CodecTotal ==
    codec.op # "none" =>
        /\ codec.out.status = "ok"
        /\ ~codec.out.overflow

\* C21: strip_generation is idempotent: for every 64-bit id x,
\* strip_generation(strip_generation(x)) is strip_generation(x).
C21_StripGenerationIdempotent ==
    codec.op = "strip_generation" =>
        /\ codec.out.status = "ok"
        /\ strip_generation(codec.out.v) = codec.out.v

C21_Witness ==
    /\ codec.op = "strip_generation"
    /\ codec.a = U64(32768, 65535, 4095, 1)
    /\ codec.out.v = U64(32768, 0, 4095, 1)
    /\ strip_generation(codec.out.v) = U64(32768, 0, 4095, 1)

\* C22: strip_generation(x) leaves the low 32 bits and the pair / flag
\* bits of x as they are, and get_generation of the result is 0.
C22_StripGenerationFrame ==
    codec.op = "strip_generation" =>
        /\ AsU32(codec.out.v) = AsU32(codec.a)
        /\ And64(codec.out.v, RUST_ECS_ID_FLAGS_MASK) =
              And64(codec.a, RUST_ECS_ID_FLAGS_MASK)
        /\ ecs_is_pair(codec.out.v) = ecs_is_pair(codec.a)
        /\ get_generation(codec.out.v) = <<0, 0>>

C22_Witness ==
    /\ codec.op = "strip_generation"
    /\ codec.a = U64(49152, 65535, 4096, 65535)
    /\ get_generation(codec.a) = <<65535, 0>>
    /\ AsU32(codec.out.v) = <<65535, 4096>>
    /\ codec.out.v[4] = 49152
    /\ get_generation(codec.out.v) = <<0, 0>>

\* C23: get_generation(x) is the value held in the generation bits of x,
\* the same whether the PAIR flag bit of x is set or cleared.
C23_GenerationIndependentOfPairFlag ==
    codec.op = "get_generation" =>
        /\ codec.out.status = "ok"
        /\ codec.out.v = <<codec.a[3], 0>>
        /\ codec.out.v = get_generation(Or64(codec.a, ECS_PAIR))
        /\ codec.out.v = get_generation(And64(codec.a, Not64(ECS_PAIR)))

C23_Witness ==
    /\ codec.op = "get_generation"
    /\ codec.a = U64(32768, 65535, 0, 1)
    /\ codec.out.v = <<65535, 0>>
    /\ get_generation(And64(codec.a, Not64(ECS_PAIR))) = <<65535, 0>>

\* C24: ecs_pair_first and ecs_pair_second called on an id that is not a
\* pair trip an assertion instead of returning a value.
C24_NonPairGuarded ==
    (codec.op \in {"ecs_pair_first", "ecs_pair_second"} /\ ~ecs_is_pair(codec.a)) =>
        codec.out.status = "panic"

\* C29: for every 64-bit id e, ecs_pair_first(e) is below 2^28 (the flag
\* bits are masked off before the shift) and ecs_pair_second(e) is below
\* 2^32; neither depends on the PAIR flag of e.
C29_PairHalvesBounded ==
    /\ codec.op = "ecs_pair_first" =>
          /\ Is28(codec.out.v)
          /\ codec.out.v = ecs_pair_first(Or64(codec.a, ECS_PAIR))
          /\ codec.out.v = ecs_pair_first(And64(codec.a, Not64(ECS_PAIR)))
    /\ codec.op = "ecs_pair_second" =>
          /\ Is32(codec.out.v)
          /\ codec.out.v = ecs_pair_second(Or64(codec.a, ECS_PAIR))
          /\ codec.out.v = ecs_pair_second(And64(codec.a, Not64(ECS_PAIR)))

C29_Witness ==
    /\ codec.op = "ecs_pair_second"
    /\ codec.a = U64(65535, 65535, 4095, 65535)
    /\ codec.out.v = U64(0, 0, 4095, 65535)
    /\ ecs_pair_first(codec.a) = U64(0, 0, 4095, 65535)

(***************************************************************************)
(* Frame of populate and register_ids_descriptor (checked under SpecUsed)  *)
(***************************************************************************)
\* What writing the tuple's terms from slot c leaves in slot s of an array
\* that held `before`: the member's id, the operator Optional for an
\* Optional member and the earlier operator for a Required one; a slot the
\* tuple does not cover stays as it was.
Written(before, c, s) ==
    IF s \in c..(c + tuple.n - 1)
    THEN [id |-> get_id(s - c),
          oper |-> IF IS_OPTION(tuple, s - c) THEN "Optional" ELSE before[s].oper]
    ELSE before[s]

\* C28: populate and register_ids_descriptor write only the id and, for an
\* Optional member, the operator of the N slots they cover: the other
\* slots are unchanged and a Required member's slot keeps the operator it
\* had before the call.
C28_OnlyCoveredSlotsWritten ==
    /\ pre.populate =>
          \A s \in 0..(TermSlots - 1) :
              filter.terms[s] = Written(pre.filter.terms, pre.filter.cursor, s)
    /\ pre.register =>
          \A s \in 0..(TermSlots - 1) :
              desc.terms[s] = Written(pre.desc.terms, 0, s)

C28_Witness ==
    /\ pre.populate
    /\ pre.register
    /\ tuple = [n |-> 4, opt |-> 1]
    /\ pre.filter.cursor = 1
    /\ \A s \in 0..(TermSlots - 1) : pre.filter.terms[s] = UsedTerm
    /\ filter.terms[0] = UsedTerm
    /\ filter.terms[1] = [id |-> get_id(0), oper |-> "Not"]
    /\ filter.terms[4] = [id |-> get_id(3), oper |-> "Optional"]
    /\ filter.terms[5] = UsedTerm
    /\ desc.terms[0] = [id |-> get_id(0), oper |-> "Not"]
    /\ desc.terms[4] = UsedTerm

(***************************************************************************)
(* set_helper (checked under SpecSet)                                      *)
(***************************************************************************)
\* C30: a call of set_helper writes the value into the storage obtained for
\* (entity, id) and then signals modification exactly once, whether or not
\* the world is in deferred mode: every signal of the call comes after the
\* write.
C30_WriteThenOneSignal ==
    world.sets > 0 =>
        /\ SignalCount(world.steps) = 1
        /\ \A i, j \in DOMAIN world.steps :
              (world.steps[i] = "write" /\ world.steps[j] \in Signalling) => i < j
        /\ world.signals = world.sets

(***************************************************************************)
(* Custom grouping (checked under SpecGroup)                               *)
(***************************************************************************)
\* Positions of the (Group, *) pairs in a table's type.
GroupPairs(table) ==
    {i \in DOMAIN table : table[i][4] \div 4096 = 8 /\ <<table[i][3], table[i][4] % 4096>> = <<Group[1], 0>>}

\* The targets a table has for Group.
Targets(table) == {U64(0, 0, table[i][2], table[i][1]) : i \in GroupPairs(table)}

\* C25: for a block and the id Group the callback returns the target of
\* the first id of the block that matches (Group, Wildcard), and 0 exactly
\* when no id of the block matches.
C25_CallbackReturnsFirstTarget ==
    \A k \in DOMAIN query.cache :
        LET table == query.cache[k].table
            key == query.cache[k].group_id
        IN /\ (key = Zero64) = (GroupPairs(table) = {})
           /\ GroupPairs(table) # {} =>
                 \E i \in GroupPairs(table) :
                     /\ \A j \in GroupPairs(table) : i <= j
                     /\ key = U64(0, 0, table[i][2], table[i][1])

C25_Witness ==
    \E k, l \in DOMAIN query.cache :
        /\ query.cache[k].table = TypeOf({Position, PairId(Group, First), PairId(Group, Second)})
        /\ query.cache[k].group_id = First
        /\ query.cache[l].table = <<Position>>
        /\ query.cache[l].group_id = Zero64

\* C26: two blocks that each hold one pair (Group, T) get the same key
\* from the callback when their targets are the same, whatever else the
\* blocks hold, and different keys when their targets differ.
C26_KeyDependsOnTargetOnly ==
    \A k, l \in DOMAIN query.cache :
        LET a == query.cache[k]
            b == query.cache[l]
        IN (Cardinality(Targets(a.table)) = 1 /\ Cardinality(Targets(b.table)) = 1) =>
               (a.group_id = b.group_id) = (Targets(a.table) = Targets(b.table))

C26_Witness ==
    \E k, l, m \in DOMAIN query.cache :
        /\ query.cache[k].table = TypeOf({Position, PairId(Group, Third)})
        /\ query.cache[l].table = TypeOf({Position, Tag, PairId(Group, Third)})
        /\ query.cache[m].table = TypeOf({Position, Tag, PairId(Group, First)})
        /\ query.cache[k].group_id = Third
        /\ query.cache[l].group_id = Third
        /\ query.cache[m].group_id = First

\* The six tables of the example in the order its entities are created.
ExampleTables ==
    <<TypeOf({Position, PairId(Group, Third)}),
      TypeOf({Position, PairId(Group, Second)}),
      TypeOf({Position, PairId(Group, First)}),
      TypeOf({Position, Tag, PairId(Group, Third)}),
      TypeOf({Position, Tag, PairId(Group, Second)}),
      TypeOf({Position, Tag, PairId(Group, First)})>>

\* The blocks the example expects, in the order it prints them.
ExampleOutput ==
    <<[table |-> ExampleTables[3], group_id |-> First],
      [table |-> ExampleTables[6], group_id |-> First],
      [table |-> ExampleTables[2], group_id |-> Second],
      [table |-> ExampleTables[5], group_id |-> Second],
      [table |-> ExampleTables[1], group_id |-> Third],
      [table |-> ExampleTables[4], group_id |-> Third]>>

\* C27: the blocks of one group are visited contiguously (after a block of
\* another group no block of an earlier group follows), the group id
\* reported for a visited block is the key the callback returned for it,
\* and the example's six tables are visited in the order it prints.
C27_GroupsVisitedContiguously ==
    LET v == query.visited IN
    /\ \A i, j, k \in DOMAIN v :
          (i < j /\ j < k /\ v[i].group_id = v[k].group_id) =>
              v[j].group_id = v[i].group_id
    /\ \A i \in DOMAIN v :
          v[i].group_id = callback_group_by_relationship(v[i].table, Group)
    /\ (Len(v) = Len(ExampleOutput) /\ query.tables = ExampleTables) =>
          v = ExampleOutput

C27_Witness ==
    /\ query.tables = ExampleTables
    /\ query.visited = ExampleOutput

====
